---- MODULE Spec2Model ----
(***************************************************************************)
(* The surface-compositing engine of kitchen-preview: the latest           *)
(* KitchenPreviewCanvas component (kitchen-preview-canvas.tsx, second      *)
(* definition, lines 308-1058), driven by the App's selection and scene    *)
(* state (App.tsx).                                                        *)
(*                                                                         *)
(* Strings are sequences of tokens: a hex colour is the sequence of its    *)
(* characters (<<"#","f","5","f","5","f","0">>), a pattern reference is    *)
(* <<"url(#", ..., ")">>, the absent attribute is the empty sequence.      *)
(*                                                                         *)
(* JavaScript runs one task at a time: a composite pass runs from its      *)
(* start, or from the settling of the image it awaits, up to its next      *)
(* image fetch without any other handler running.  `running` holds the     *)
(* pass that owns the microtask queue; user events, fetch completions and  *)
(* image events are enabled only when it is 0.                             *)
(*                                                                         *)
(* Spec follows the mounted canvas and the editor handlers that drive it.  *)
(* AppSpec follows App.tsx across dashboard and editor (saved designs,     *)
(* default theme), ContentSpec the loaders of lib/content, ResolveSpec two  *)
(* calls of a region selector on one document, GroutSpec one call of       *)
(* adjustColorBrightness, ExportSpec the calls of handleExportPdf.  Each    *)
(* leaves the others' variables untouched.                                 *)
(***************************************************************************)
EXTENDS Integers, Sequences, FiniteSets, TLC

\* ------------------------------------------------------------------ bounds
MaxPasses == 3
MaxLoads == 2

\* ------------------------------------------------------------- strings
NoStr == <<>>

ToLowerCh(ch) ==
    CASE ch = "A" -> "a" [] ch = "B" -> "b" [] ch = "C" -> "c"
      [] ch = "D" -> "d" [] ch = "E" -> "e" [] ch = "F" -> "f"
      [] OTHER -> ch

\* String.prototype.toLowerCase
ToLower(s) == [i \in 1..Len(s) |-> ToLowerCh(s[i])]

RECURSIVE TrimLeft(_)
TrimLeft(s) == IF s # <<>> /\ Head(s) = " " THEN TrimLeft(Tail(s)) ELSE s

RECURSIVE TrimRight(_)
TrimRight(s) ==
    IF s # <<>> /\ s[Len(s)] = " " THEN TrimRight(SubSeq(s, 1, Len(s) - 1)) ELSE s

\* String.prototype.trim
Trim(s) == TrimRight(TrimLeft(s))

\* String.prototype.startsWith
StartsWith(s, p) == Len(s) >= Len(p) /\ SubSeq(s, 1, Len(p)) = p

HexChars == {"0","1","2","3","4","5","6","7","8","9",
             "a","b","c","d","e","f","A","B","C","D","E","F"}

HexVal(ch) ==
    CASE ch = "0" -> 0 [] ch = "1" -> 1 [] ch = "2" -> 2 [] ch = "3" -> 3
      [] ch = "4" -> 4 [] ch = "5" -> 5 [] ch = "6" -> 6 [] ch = "7" -> 7
      [] ch = "8" -> 8 [] ch = "9" -> 9
      [] ch \in {"a","A"} -> 10 [] ch \in {"b","B"} -> 11
      [] ch \in {"c","C"} -> 12 [] ch \in {"d","D"} -> 13
      [] ch \in {"e","E"} -> 14 [] ch \in {"f","F"} -> 15

HexDigit(n) ==
    <<"0","1","2","3","4","5","6","7","8","9","a","b","c","d","e","f">>[n + 1]

\* n.toString(16).padStart(2, '0') for 0 <= n <= 255
Hex2(n) == <<HexDigit(n \div 16), HexDigit(n % 16)>>

\* the number of leading hex characters of s from position i on
RECURSIVE HexRun(_, _)
HexRun(s, i) == IF i <= Len(s) /\ s[i] \in HexChars THEN 1 + HexRun(s, i + 1) ELSE 0

\* url(#<pattern id>)
Url(patternId) == <<"url(#">> \o patternId \o <<")">>

\* ------------------------------------------------------------- colours
\* parseInt(hex.substring(0,2),16) etc. of a '#rrggbb' string
ParseRgb(color) ==
    [r |-> HexVal(color[2]) * 16 + HexVal(color[3]),
     g |-> HexVal(color[4]) * 16 + HexVal(color[5]),
     b |-> HexVal(color[6]) * 16 + HexVal(color[7])]

\* rgbToHex applied to the 'rgb(r, g, b)' text of the components
rgbToHex(rgb) == <<"#">> \o Hex2(rgb.r) \o Hex2(rgb.g) \o Hex2(rgb.b)

\* Math.round(x * num / den) for a non-negative integer x
RoundMul(x, num, den) == (2 * x * num + den) \div (2 * den)

Clamp255(n) == IF n < 0 THEN 0 ELSE IF n > 255 THEN 255 ELSE n

\* luminance > 0.5 with luminance = (0.299 r + 0.587 g + 0.114 b) / 255
IsLight(rgb) == 2 * (299 * rgb.r + 587 * rgb.g + 114 * rgb.b) > 255 * 1000

adjustColorBrightness(color, percent) ==
    LET c == ParseRgb(color)
        num == IF IsLight(c) THEN 70 ELSE 85
    IN  rgbToHex([r |-> Clamp255(RoundMul(c.r, num, 100)),
                  g |-> Clamp255(RoundMul(c.g, num, 100)),
                  b |-> Clamp255(RoundMul(c.b, num, 100))])

\* ------------------------------------------------------------- catalog
Categories == {"countertop", "backsplash", "cabinet", "floor", "background"}

\* the order in which applyTextures awaits updateSurface
LayerOrderCabinetFirst == <<"background", "floor", "cabinet", "backsplash", "countertop">>

LayerOrder == <<"background", "floor", "countertop", "backsplash", "cabinet">>

\* the material catalog handed to the component (TextureOption records)
Catalog ==
    { [id |-> "bg-soft-white", category |-> "background", type |-> "color",
       value |-> <<"#","f","8","f","a","f","c">>],
      [id |-> "floor-slate", category |-> "floor", type |-> "color",
       value |-> <<"#","6","b","7","2","8","0">>],
      [id |-> "countertop-granite", category |-> "countertop", type |-> "texture",
       value |-> <<"textures/countertop-granite-dark.jpg">>],
      [id |-> "countertop-cream", category |-> "countertop", type |-> "color",
       value |-> <<"#","f","f","f","9","d","3">>],
      [id |-> "backsplash-white", category |-> "backsplash", type |-> "color",
       value |-> <<"#","f","f","f","f","f","f">>],
      [id |-> "cabinet-navy", category |-> "cabinet", type |-> "color",
       value |-> <<"#","1","e","3","a","5","f">>] }

NoOpt == [id |-> "", category |-> "", type |-> "", value |-> NoStr]

\* a lookup that gives an option of the catalog for an id it does not hold
TextureMapGetOrDefault(id) ==
    IF \E t \in Catalog : t.id = id
    THEN CHOOSE t \in Catalog : t.id = id
    ELSE CHOOSE t \in Catalog : t.id = "cabinet-navy"

\* textureMap.get(id): the option or undefined (NoOpt)
TextureMapGet(id) ==
    IF \E t \in Catalog : t.id = id
    THEN CHOOSE t \in Catalog : t.id = id
    ELSE NoOpt

\* getTexturesByCategory(category) ids
IdsOf(category) == {t.id : t \in {u \in Catalog : u.category = category}}

SceneIds == {"kitchen-preview", "kitchen-preview-2"}

\* ------------------------------------------------------------- artwork
\* One element of the loaded document: its id attribute, tag, fill
\* attribute, inline style fill, stylesheet fill, and parent (0 = the svg).
El(id, tag, fill, style, css, parent) ==
    [id |-> id, tag |-> tag, fill |-> fill, style |-> style, css |-> css,
     parent |-> parent]

\* kitchen-preview.svg: regions carry ids; floor-surface-main is absent
ArtworkIdBased ==
    << El("background-surface", "rect", <<"#","f","0","f","0","f","0">>, NoStr, NoStr, 0),
       El("floor-surface", "rect", <<"#","c","9","c","5","a","7">>, NoStr, NoStr, 0),
       El("countertop-surface-4", "path", <<"#","8","d","8","9","7","5">>, NoStr, NoStr, 0),
       El("countertop-surface-5", "path", NoStr, <<"#","8","d","8","9","7","5">>, NoStr, 0),
       El("backsplash-surface-wall-1", "rect", <<"#","e","0","e","0","e","0">>, NoStr, NoStr, 0),
       El("cabinet-surface-upper-1", "path", <<"#","f","f","f","9","d","3">>, NoStr, NoStr, 0),
       El("cabinet-surface-1", "path", <<"#","f","f","f","9","d","3">>, NoStr, NoStr, 0),
       El("sink", "path", <<"#","3","3","3","3","3","3">>, NoStr, NoStr, 0) >>

\* kitchen-preview-2.svg: paths without ids, told apart by their colour
ArtworkColorBased ==
    << El("", "g", <<"#","7","3","7","3","7","3">>, NoStr, NoStr, 0),
       El("", "path", <<"#","B","D","B","C","C","0">>, NoStr, NoStr, 0),
       El("", "path", NoStr, NoStr, NoStr, 1),
       El("", "path", <<"#","8","d","8","9","7","5">>, NoStr, NoStr, 0),
       El("", "path", NoStr, <<"#","8","D","8","9","7","5">>, NoStr, 0),
       El("", "path", NoStr, NoStr, <<"#","e","e","e","e","e","e">>, 0),
       El("", "path", <<"#","f","f","f","9","d","3">>, NoStr, NoStr, 0),
       El("", "path", <<"#","3","3","3","3","3","3">>, NoStr, NoStr, 0) >>

\* the parsed body of scene.baseImageUrl
Artwork(sceneId) ==
    IF sceneId = "kitchen-preview-2" THEN ArtworkColorBased ELSE ArtworkIdBased

\* the numbers of the viewBox attribute of that body
ArtworkViewBox(sceneId) ==
    IF sceneId = "kitchen-preview-2" THEN <<0, 0, 1024, 768>> ELSE <<0, 0, 1359, 877>>

\* svgDoc.documentElement when the body is the scene's artwork
ImportedSvg(sceneId) ==
    [viewBox |-> ArtworkViewBox(sceneId), els |-> Artwork(sceneId)]

\* svgDoc.documentElement when the body is not well-formed markup (the page
\* of a 404 response, a truncated file): parseFromString does not throw, it
\* returns a document holding a parsererror element and no viewBox
ParserErrorDocument ==
    [viewBox |-> <<>>, els |-> << El("", "parsererror", NoStr, NoStr, NoStr, 0) >>]

\* importedSvg.getAttribute('viewBox') || ... || '0 0 1359 877'
originalViewBox(importedSvg) ==
    IF importedSvg.viewBox # <<>> THEN importedSvg.viewBox ELSE <<0, 0, 1359, 877>>

\* the padding applied to a viewBox that is already padded
PaddedTwice(vb) ==
    LET x == 100 * vb[1] - 15 * vb[3]
        y == 100 * vb[2] - 15 * vb[4]
        w == 130 * vb[3]
        h == 130 * vb[4]
    IN  << 100 * x - 15 * w, 100 * y - 15 * h, 130 * w, 130 * h >>

\* the viewBox with 15% padding on every side, in hundredths of a unit
newViewBox(vb) ==
    << 100 * vb[1] - 15 * vb[3], 100 * vb[2] - 15 * vb[4], 130 * vb[3], 130 * vb[4] >>

\* the viewBox attribute of an <svg> that has none
NoViewBox == <<>>


\* ---------------------------------------------------------- resolution
\* the first match of fill:\s*(#[0-9A-Fa-f]{6}|#[0-9A-Fa-f]{3}|...) in the
\* style attribute, or NoStr
StyleFillMatch(style) ==
    IF StartsWith(style, <<"#">>)
    THEN IF HexRun(style, 2) >= 6 THEN SubSeq(style, 1, 7)
         ELSE IF HexRun(style, 2) >= 3 THEN SubSeq(style, 1, 4)
         ELSE NoStr
    ELSE NoStr

\* a '#rgb' or '#rrggbb' value as the components the browser computes
IsColor(v) == StartsWith(v, <<"#">>) /\ Len(v) \in {4, 7} /\ HexRun(v, 2) = Len(v) - 1

ColorRgb(v) ==
    IF Len(v) = 7 THEN ParseRgb(v)
    ELSE [r |-> HexVal(v[2]) * 17, g |-> HexVal(v[3]) * 17, b |-> HexVal(v[4]) * 17]

\* the value window.getComputedStyle(el).fill is computed from: the inline
\* style, else the fill attribute, else a stylesheet rule, else the parent
RECURSIVE ComputedFill(_, _)
ComputedFill(els, i) ==
    IF els[i].style # NoStr THEN els[i].style
    ELSE IF els[i].fill # NoStr THEN els[i].fill
    ELSE IF els[i].css # NoStr THEN els[i].css
    ELSE IF els[i].parent # 0 THEN ComputedFill(els, els[i].parent)
    ELSE <<"#","0","0","0">>

RECURSIVE getElementFillColor(_, _)
getElementFillColor(els, i) ==
    LET fillAttr == els[i].fill
        fillMatch == StyleFillMatch(els[i].style)
        computed == ComputedFill(els, i)
        parentFill == IF els[i].parent # 0
                      THEN getElementFillColor(els, els[i].parent) ELSE NoStr
    IN  IF fillAttr # NoStr /\ StartsWith(fillAttr, <<"#">>)
        THEN Trim(ToLower(fillAttr))
        ELSE IF fillMatch # NoStr
        THEN ToLower(Trim(fillMatch))
        ELSE IF IsColor(computed) /\ ColorRgb(computed) # [r |-> 0, g |-> 0, b |-> 0]
        THEN rgbToHex(ColorRgb(computed))
        ELSE parentFill

\* svg.querySelectorAll('path') in document order
AllPaths(els) == SelectSeq([i \in 1..Len(els) |-> i], LAMBDA i : els[i].tag = "path")

\* colors.map(c => lower/trim, prefixed with '#')
NormalizeColor(c) ==
    LET color == Trim(ToLower(c))
    IN  IF StartsWith(color, <<"#">>) THEN color ELSE <<"#">> \o color

SeqRange(s) == {s[i] : i \in 1..Len(s)}

findElementsByColor(els, colors) ==
    LET normalizedColors == {NormalizeColor(c) : c \in SeqRange(colors)}
    IN  SelectSeq(AllPaths(els),
                  LAMBDA i : /\ getElementFillColor(els, i) # NoStr
                             /\ getElementFillColor(els, i) \in normalizedColors)

BackgroundColors ==
    << <<"#","B","D","B","C","C","0">>,
       <<"#","b","d","b","c","c","0">>,
       <<"#","B","D","B","C","B","0">>,
       <<"#","b","d","b","c","0">> >>

FloorColors ==
    << <<"#","7","3","7","3","7","3">>,
       <<"#","6","1","5","7","3","9">>,
       <<"#","7","3","7","3","7","3">>,
       <<"#","6","1","5","7","3","9">>,
       <<"#","6","B","6","B","6","B">>,
       <<"#","5","A","5","A","5","A">>,
       <<"#","4","A","4","A","4","A">>,
       <<"#","3","A","3","A","3","A">> >>

CountertopColors ==
    << <<"#","8","d","8","9","7","5">>,
       <<"#","8","D","8","9","7","5">>,
       <<"#","8","D","8","A","7","5">>,
       <<"#","8","E","8","9","7","5">>,
       <<"#","9","D","9","9","7","5">>,
       <<"#","7","D","7","9","7","5">>,
       <<"#","8","C","8","8","7","4">>,
       <<"#","8","E","8","A","7","6">> >>

CabinetColors ==
    << <<"#","f","f","f","9","d","3">>,
       <<"#","F","F","F","9","D","3">>,
       <<"#","F","F","F","A","D","3">>,
       <<"#","F","F","F","8","D","3">>,
       <<"#","c","9","c","5","a","7">>,
       <<"#","C","9","C","5","A","7">>,
       <<"#","C","9","C","6","A","7">>,
       <<"#","C","8","C","5","A","7">>,
       <<"#","D","9","D","5","B","7">>,
       <<"#","E","9","E","5","C","7">> >>

\* a backsplash selector that excludes no cabinet colour
NoCabinetColors == <<>>

\* the exclusion lists of the backsplash selector
BacksplashCabinetColors ==
    << <<"#","f","f","f","9","d","3">>,
       <<"#","c","9","c","5","a","7">>,
       <<"#","f","f","f","a","d","3">>,
       <<"#","f","f","f","8","d","3">>,
       <<"#","c","9","c","6","a","7">>,
       <<"#","c","8","c","5","a","7">>,
       <<"#","d","9","d","5","b","7">>,
       <<"#","e","9","e","5","c","7">> >>

BacksplashBackgroundColors ==
    << <<"#","b","d","b","c","c","0">>,
       <<"#","b","d","b","c","0">> >>

BacksplashByColor(els) ==
    SelectSeq(AllPaths(els),
        LAMBDA i :
            LET actualColor == getElementFillColor(els, i)
                isLightColor == \/ StartsWith(actualColor, <<"#","f">>)
                                \/ StartsWith(actualColor, <<"#","e">>)
                                \/ StartsWith(actualColor, <<"#","d">>)
                isNotCabinet ==
                    ~ \E c \in SeqRange(BacksplashCabinetColors) : actualColor = ToLower(c)
                isNotBackground ==
                    ~ \E c \in SeqRange(BacksplashBackgroundColors) : actualColor = ToLower(c)
            IN  actualColor # NoStr /\ isLightColor /\ isNotCabinet /\ isNotBackground)

\* svg.querySelector('#id') among the artwork's elements: the first in
\* document order, or 0
QuerySelectorId(els, id) ==
    IF \E i \in 1..Len(els) : els[i].id = id
    THEN CHOOSE i \in 1..Len(els) :
            els[i].id = id /\ \A j \in 1..(i - 1) : els[j].id # id
    ELSE 0

\* the listed elements as svg.querySelectorAll would give them: in
\* document order
ElementsInDocumentOrder(els, ids) ==
    SelectSeq([i \in 1..Len(els) |-> i], LAMBDA i : els[i].id \in SeqRange(ids))

\* ids.map(id => svg.querySelector('#' + id)).filter(Boolean)
ElementsByIds(els, ids) ==
    SelectSeq([k \in 1..Len(ids) |-> QuerySelectorId(els, ids[k])], LAMBDA i : i # 0)

FloorIds == << "floor-surface", "floor-surface-main" >>

CountertopIds ==
    << "countertop-surface-4", "countertop-surface-5", "countertop-surface-6",
       "countertop-surface-7", "countertop-surface-8", "countertop-surface-9",
       "countertop-surface-10", "countertop-surface-11", "countertop-surface-12",
       "countertop-surface-13", "countertop-surface-14", "countertop-surface-15",
       "countertop-surface-16", "countertop-surface-17", "countertop-surface-18",
       "countertop-surface-19", "countertop-surface-20", "countertop-surface-21" >>

BacksplashIds ==
    << "backsplash-surface-wall-1", "backsplash-surface-wall-2", "backsplash-surface-wall-3" >>

CabinetIds ==
    << "cabinet-surface-upper-1", "cabinet-surface-upper-2", "cabinet-surface-upper-3",
       "cabinet-surface-upper-4", "cabinet-surface-upper-5", "cabinet-surface-upper-6",
       "cabinet-surface-upper-7", "cabinet-surface-upper-8", "cabinet-surface-upper-9",
       "cabinet-surface-upper-10", "cabinet-surface-upper-11", "cabinet-surface-upper-12",
       "cabinet-surface-1", "cabinet-surface-2", "cabinet-surface-3",
       "cabinet-surface-4", "cabinet-surface-5", "cabinet-surface-6",
       "cabinet-surface-7", "cabinet-surface-8", "cabinet-surface-9",
       "cabinet-surface-10", "cabinet-surface-11", "cabinet-surface-12",
       "cabinet-surface-13", "cabinet-surface-14", "cabinet-surface-15",
       "cabinet-surface-16", "cabinet-surface-17", "cabinet-surface-18",
       "cabinet-surface-19", "cabinet-surface-20", "cabinet-surface-21",
       "cabinet-surface-22", "cabinet-surface-23", "cabinet-surface-24",
       "cabinet-surface-25", "cabinet-surface-26", "cabinet-surface-27",
       "cabinet-surface-28" >>

\* getSceneSelectors(sceneId, svg)[category]()
Selectors(sceneId, els, category) ==
    IF sceneId = "kitchen-preview-2"
    THEN CASE category = "background" -> findElementsByColor(els, BackgroundColors)
           [] category = "floor" -> findElementsByColor(els, FloorColors)
           [] category = "countertop" -> findElementsByColor(els, CountertopColors)
           [] category = "backsplash" -> BacksplashByColor(els)
           [] category = "cabinet" -> findElementsByColor(els, CabinetColors)
    ELSE CASE category = "background" -> ElementsByIds(els, << "background-surface" >>)
           [] category = "floor" -> ElementsByIds(els, FloorIds)
           [] category = "countertop" -> ElementsByIds(els, CountertopIds)
           [] category = "backsplash" -> ElementsByIds(els, BacksplashIds)
           [] category = "cabinet" -> ElementsByIds(els, CabinetIds)


\* ------------------------------------------------------------- assets
BaseUrl == <<"/kitchen-preview/">>

\* getAssetUrl(path)
getAssetUrl(path) ==
    IF StartsWith(path, <<"http">>) THEN path
    ELSE IF StartsWith(path, <<"/">>) THEN BaseUrl \o Tail(path)
    ELSE BaseUrl \o path

\* ------------------------------------------------------------- state
VARIABLES
    sceneId,            \* App: the id of the scene handed to the canvas
    selections,         \* App: selections, category -> material id
    svgReady,           \* App: svgRef.current is the svg (not null)
    elems,              \* the children of the <svg> node, in document order
    defs,               \* the pattern definitions in the svg's <defs>
    svgLoadedRef,       \* svgLoadedRef.current
    lastSelectionsRef,  \* lastSelectionsRef.current
    loads,              \* the loadSvg calls made so far
    passes,             \* the applyTextures calls made so far
    running,            \* the pass that is executing, or 0
    docGen,             \* history: how many artworks have been installed
    docScene,           \* history: the scene whose artwork is installed
    last,               \* history: the last application of updateSurface
    viewBox,            \* the viewBox attribute of the <svg> node
    lastApplied,        \* history: the last pass completed on this document
    selectedThemeId,    \* App: selectedThemeId, "" for null
    view,               \* App: view, 'dashboard' or 'editor'
    hasLoadedDesign,    \* App: hasLoadedDesign
    contentReady,       \* App: contentReady
    storage,            \* localStorage: the saved designs
    cache,              \* lib/content: cachedTextures, cachedScenes, cachedThemes
    fetches,            \* lib/content: the load calls made so far
    grout,              \* a call of adjustColorBrightness: argument and result
    resolve,            \* two calls of a region selector on one document
    export              \* App: isExporting and the export attempts made so far

\* the state of the canvas and of the editor that drives it
canvas == <<sceneId, selections, svgReady, elems, defs, svgLoadedRef,
            lastSelectionsRef, loads, passes, running, docGen, docScene, last,
            viewBox, lastApplied, selectedThemeId>>

\* the state that no canvas step touches
outside == <<view, hasLoadedDesign, contentReady, storage, cache, fetches,
             grout, resolve, export>>

vars == <<canvas, outside>>

\* what is kept of a pass once applyTextures has returned
DonePass ==
    [scene |-> "", sel |-> [c \in Categories |-> ""], origin |-> "", step |-> 6,
     status |-> "done", elements |-> <<>>, elemGen |-> 0,
     log |-> <<>>, wrote |-> {}, regions |-> {}, loaded |-> {}, failed |-> {},
     overlap |-> {},
     onScene |-> "", curScene |-> "", gen |-> 0]

NoKey == [sceneId |-> "", ids |-> [c \in Categories |-> ""]]

\* JSON.stringify({sceneId, countertop: selections.countertop?.id, ...})
SelectionsKey(scn, sel) ==
    [sceneId |-> scn, ids |-> [c \in Categories |-> TextureMapGet(sel[c]).id]]

NoLast == [kind |-> "none", pass |-> 0, cat |-> "", regions |-> {},
           fill |-> NoStr, value |-> NoStr]

\* a fresh call of applyTextures(svg) closing over scene and selections
NewPass(scn, sel, origin, onScene, curScene, gen) ==
    [scene |-> scn, sel |-> sel, origin |-> origin, step |-> 1,
     status |-> "running", elements |-> <<>>, elemGen |-> 0,
     log |-> <<>>, wrote |-> {}, regions |-> {}, loaded |-> {}, failed |-> {},
     overlap |-> {},
     onScene |-> onScene, curScene |-> curScene, gen |-> gen]

InFlight(p) == passes[p].status \in {"running", "waiting"}

\* ---------------------------------------------------------- document
\* el.setAttribute('fill', v); el.style.fill = v on every listed element
PaintFillAttrOnly(els, idxs, v) ==
    [i \in 1..Len(els) |->
        IF i \in SeqRange(idxs) THEN [els[i] EXCEPT !.fill = v] ELSE els[i]]

\* the fill set on every element of the document, listed or not
PaintFillEverywhere(els, idxs, v) ==
    [i \in 1..Len(els) |-> [els[i] EXCEPT !.fill = v, !.style = v]]

PaintFill(els, idxs, v) ==
    [i \in 1..Len(els) |->
        IF i \in SeqRange(idxs) THEN [els[i] EXCEPT !.fill = v, !.style = v]
        ELSE els[i]]

HasPattern(ds, patternId) == \E k \in 1..Len(ds) : ds[k].id = patternId

KeepExisting(ds, patternId) == ds

\* svg.querySelector('#' + patternId)?.remove(): the first match goes
RemoveExisting(ds, patternId) ==
    IF HasPattern(ds, patternId)
    THEN LET k == CHOOSE k \in 1..Len(ds) :
                    ds[k].id = patternId /\ \A j \in 1..(k - 1) : ds[j].id # patternId
         IN  SubSeq(ds, 1, k - 1) \o SubSeq(ds, k + 1, Len(ds))
    ELSE ds

FloorPatternId == <<"floor-tile-pattern">>

\* a createTilePattern that leaves an existing floor pattern as it is
TilePatternKept(ds, baseColor, gen) ==
    IF HasPattern(ds, FloorPatternId) THEN ds
    ELSE Append(ds, [id |-> FloorPatternId, kind |-> "tile", gen |-> gen,
                     face |-> baseColor, grout |-> adjustColorBrightness(baseColor, -15)])

\* createTilePattern(svg, baseColor): the defs afterwards
createTilePattern(ds, baseColor, gen) ==
    Append(RemoveExisting(ds, FloorPatternId),
           [id |-> FloorPatternId, kind |-> "tile", gen |-> gen,
            face |-> baseColor, grout |-> adjustColorBrightness(baseColor, -15)])

TexturePatternId(opt) == <<"texture-", opt.id>>

\* the pattern part of updateSurface's texture branch: the defs afterwards
InstallTexturePattern(ds, opt, gen) ==
    Append(RemoveExisting(ds, TexturePatternId(opt)),
           [id |-> TexturePatternId(opt), kind |-> "texture", gen |-> gen,
            face |-> getAssetUrl(opt.value), grout |-> NoStr])

FallbackGray == <<"#","c","c","c">>

\* updateSurface's colour branch on the resolved elements
SurfaceColor(els, ds, elements, opt, isFloor, gen) ==
    [elems |-> PaintFill(els, elements,
                         IF isFloor THEN Url(FloorPatternId) ELSE opt.value),
     defs |-> IF isFloor THEN createTilePattern(ds, opt.value, gen) ELSE ds]

\* updateSurface's texture branch after loadImage has resolved; elements are
\* those of the captured list that are still in the document
SurfaceTexture(els, ds, elements, opt, gen) ==
    [elems |-> PaintFill(els, elements, Url(TexturePatternId(opt))),
     defs |-> InstallTexturePattern(ds, opt, gen)]

\* updateSurface's catch block
SurfaceFallback(els, ds, elements) ==
    [elems |-> PaintFill(els, elements, FallbackGray), defs |-> ds]

\* the history of one pass: what it last wrote to each element
Record(wrote, gen, idxs, v) ==
    {w \in wrote : ~(w.gen = gen /\ w.idx \in SeqRange(idxs))}
    \cup {[gen |-> gen, idx |-> i, fill |-> v] : i \in SeqRange(idxs)}


\* svg.innerHTML = importedSvg.innerHTML: the defs of the old content go
KeptDefs(ds) == ds

InstalledDefs(ds) == <<>>

\* the catch block of updateSurface's texture branch rethrowing
Rethrown(ps, c) == [ps EXCEPT !.status = "rejected", !.failed = @ \cup {c}]

\* the catch block of updateSurface's texture branch: the call returns
\* normally and applyTextures goes on to the next category
Caught(ps, c) ==
    [ps EXCEPT !.step = @ + 1, !.status = "running", !.failed = @ \cup {c},
               !.log = Append(@, <<"end", c>>)]

\* ------------------------------------------------------------- actions
\* getDefaultScene(): the scene flagged isDefault
DefaultSceneId == "kitchen-preview"

\* getDefaultSelections(): the first option of every category
DefaultSelections ==
    [c \in Categories |->
        CASE c = "background" -> "bg-soft-white"
          [] c = "floor" -> "floor-slate"
          [] c = "countertop" -> "countertop-granite"
          [] c = "backsplash" -> "backsplash-white"
          [] c = "cabinet" -> "cabinet-navy"]

\* no pass has completed on the installed document
NoApplied == [gen |-> 0, key |-> NoKey]

\* selectedThemeId = null
NoTheme == ""

\* the theme list handed to the ThemeSelector (Theme records)
Themes ==
    { [id |-> "classic-wood", countertop |-> "countertop-granite",
       backsplash |-> "backsplash-white", cabinet |-> "cabinet-navy",
       floor |-> "floor-slate", background |-> "bg-soft-white"],
      [id |-> "modern-light", countertop |-> "countertop-cream",
       backsplash |-> "backsplash-white", cabinet |-> "cabinet-navy",
       floor |-> "floor-slate", background |-> "bg-soft-white"] }

\* the three datasets of lib/content
Kinds == {"textures", "scenes", "themes"}

\* a cache variable that is null
NoData == [cached |-> FALSE, list |-> <<>>]

\* lib/content as the module is loaded: nothing cached, no load under way
\* (its loads are followed in ContentSpec)
ContentIdle ==
    /\ cache = [k \in Kinds |-> NoData]
    /\ fetches = <<>>

\* no call of adjustColorBrightness has been made
NoGrout == [color |-> NoStr, result |-> NoStr]

\* no region selector has been called
NoResolve == [scene |-> "", category |-> "", els |-> <<>>, calls |-> 0,
              first |-> <<>>, second |-> <<>>]

\* isExporting is false and handleExportPdf has not been called
NoExport == [isExporting |-> FALSE, phase |-> "idle", attempts |-> <<>>]

\* the selection of a design saved when the catalog listed the material
\* countertop-marble and no backsplash: handleLoadDesign hands it on as stored
StoredSelections ==
    [DefaultSelections EXCEPT !["countertop"] = "countertop-marble",
                              !["backsplash"] = ""]

\* the selection the editor is opened with: the default one (handleNewDesign)
\* or that of a saved design (handleLoadDesign)
MountSelections == {DefaultSelections, StoredSelections}

\* the canvas has just been mounted: loadSvg has started its fetch, the
\* selection effect has returned early (svgLoadedRef is false)
Init ==
    /\ sceneId = DefaultSceneId
    /\ selections \in MountSelections
    /\ svgReady = FALSE
    /\ elems = <<>>
    /\ defs = <<>>
    /\ svgLoadedRef = FALSE
    /\ lastSelectionsRef = NoKey
    /\ loads = << [scene |-> sceneId, sel |-> selections, status |-> "fetching"] >>
    /\ passes = <<>>
    /\ running = 0
    /\ docGen = 0
    /\ docScene = ""
    /\ last = NoLast
    /\ viewBox = NoViewBox
    /\ lastApplied = NoApplied
    /\ selectedThemeId = NoTheme
    /\ view = "editor"
    /\ hasLoadedDesign = FALSE
    /\ contentReady = TRUE
    /\ storage = {}
    /\ ContentIdle
    /\ grout = NoGrout
    /\ resolve = NoResolve
    /\ export = NoExport

\* the selection effect (lines 983-1020) run with the props scn, sel
SelectionEffect(scn, sel) ==
    IF svgLoadedRef /\ lastSelectionsRef # SelectionsKey(scn, sel)
    THEN /\ Len(passes) < MaxPasses
         /\ lastSelectionsRef' = SelectionsKey(scn, sel)
         /\ passes' = Append(passes, NewPass(scn, sel, "effect", docScene, scn, docGen))
         /\ running' = Len(passes) + 1
    ELSE UNCHANGED <<lastSelectionsRef, passes, running>>

\* the five material ids of a theme, as a selection
ThemeSelections(theme) == [c \in Categories |-> theme[c]]

\* handleSelect matching the result back to a theme with the same five ids
SelectMaterialMatchingTheme(c, id) ==
    /\ selections' = [selections EXCEPT ![c] = id]
    /\ selectedThemeId' =
          IF \E t \in Themes : ThemeSelections(t) = selections'
          THEN (CHOOSE t \in Themes : ThemeSelections(t) = selections').id
          ELSE NoTheme

\* the two state updates of handleSelect(category)(id)
SelectMaterial(c, id) ==
    /\ selections' = [selections EXCEPT ![c] = id]
    /\ selectedThemeId' = NoTheme

\* handleSelect(category)(id), the render it causes and that render's effects
HandleSelect(c, id) ==
    /\ running = 0
    /\ SelectMaterial(c, id)
    /\ svgReady' = svgLoadedRef
    /\ SelectionEffect(sceneId, selections')
    /\ UNCHANGED <<sceneId, elems, defs, svgLoadedRef, loads, docGen, docScene, last,
                   viewBox, lastApplied>>
    /\ UNCHANGED outside

\* handleThemeSelect with only setSelections: the marker is left as it was
SelectThemeFieldsOnly(theme) ==
    /\ selections' = ThemeSelections(theme)
    /\ UNCHANGED selectedThemeId

\* the two state updates of handleThemeSelect(theme), batched into one render
SelectTheme(theme) ==
    /\ selections' = ThemeSelections(theme)
    /\ selectedThemeId' = theme.id

\* handleThemeSelect(theme), the render it causes and that render's effects
HandleThemeSelect(theme) ==
    /\ running = 0
    /\ SelectTheme(theme)
    /\ svgReady' = svgLoadedRef
    /\ SelectionEffect(sceneId, selections')
    /\ UNCHANGED <<sceneId, elems, defs, svgLoadedRef, loads, docGen, docScene, last,
                   viewBox, lastApplied>>
    /\ UNCHANGED outside

\* a render of App that changes neither scene nor selections: onSvgReady is
\* a new function, so the effects depending on it run again
Rerender ==
    /\ running = 0
    /\ svgReady' = svgLoadedRef
    /\ SelectionEffect(sceneId, selections)
    /\ UNCHANGED <<sceneId, selections, elems, defs, svgLoadedRef, loads,
                   docGen, docScene, last, viewBox, lastApplied, selectedThemeId>>
    /\ UNCHANGED outside

\* setSelectedSceneId(s): the loadSvg effect starts the fetch of the new
\* artwork, then the selection effect runs
SceneSwitch(s) ==
    /\ running = 0
    /\ s # sceneId
    /\ Len(loads) < MaxLoads
    /\ sceneId' = s
    /\ loads' = Append(loads, [scene |-> s, sel |-> selections, status |-> "fetching"])
    /\ svgReady' = svgLoadedRef
    /\ SelectionEffect(s, selections)
    /\ UNCHANGED <<selections, elems, defs, svgLoadedRef, docGen, docScene, last,
                   viewBox, lastApplied, selectedThemeId>>
    /\ UNCHANGED outside

\* loadSvg from the parsed body on: viewBox, innerHTML, svgLoadedRef,
\* applyTextures; outcome is what becomes of the load
InstallSvg(l, importedSvg, outcome) ==
    /\ running = 0
    /\ loads[l].status = "fetching"
    /\ Len(passes) < MaxPasses
    /\ viewBox' = newViewBox(originalViewBox(importedSvg))
    /\ elems' = importedSvg.els
    /\ defs' = InstalledDefs(defs)
    /\ docGen' = docGen + 1
    /\ docScene' = loads[l].scene
    /\ svgLoadedRef' = TRUE
    /\ loads' = [loads EXCEPT ![l].status = outcome]
    /\ passes' = Append(passes, NewPass(loads[l].scene, loads[l].sel, "load",
                                        loads[l].scene, sceneId, docGen + 1))
    /\ running' = Len(passes) + 1
    /\ last' = NoLast
    /\ lastApplied' = NoApplied
    /\ UNCHANGED <<sceneId, selections, svgReady, lastSelectionsRef, selectedThemeId>>
    /\ UNCHANGED outside

\* loadSvg after its fetch has returned the scene's artwork
SvgFetched(l) == InstallSvg(l, ImportedSvg(loads[l].scene), "installed")

\* loadSvg after its fetch has returned a non-success response or a body
\* that is no markup: response.ok is not looked at, response.text() is parsed
SvgFetchedNotSvg(l) == InstallSvg(l, ParserErrorDocument, "unparsed")

\* loadSvg when fetch rejects: the catch block logs and nothing is installed
SvgFetchFailed(l) ==
    /\ running = 0
    /\ loads[l].status = "fetching"
    /\ loads' = [loads EXCEPT ![l].status = "failed"]
    /\ UNCHANGED <<sceneId, selections, svgReady, elems, defs, svgLoadedRef,
                   lastSelectionsRef, passes, running, docGen, docScene, last,
                   viewBox, lastApplied, selectedThemeId>>
    /\ UNCHANGED outside

\* one call of updateSurface up to its return or to its await of loadImage
UpdateSurface(p) ==
    /\ running = p
    /\ passes[p].status = "running"
    /\ passes[p].step <= Len(LayerOrder)
    /\ LET ps == passes[p]
           c == LayerOrder[ps.step]
           opt == TextureMapGet(ps.sel[c])
           elements == Selectors(ps.scene, elems, c)
           isFloor == c = "floor"
           fillValue == IF isFloor THEN Url(FloorPatternId) ELSE opt.value
           after == SurfaceColor(elems, defs, elements, opt, isFloor, docGen)
           resolved == {[cat |-> c, gen |-> docGen, idx |-> i] : i \in SeqRange(elements)}
           returned == [ps EXCEPT !.step = @ + 1,
                                  !.log = @ \o << <<"begin", c>>, <<"end", c>> >>]
       IN  IF opt = NoOpt \/ elements = <<>> \/ opt.type \notin {"color", "texture"}
           THEN /\ passes' = [passes EXCEPT ![p] = returned]
                /\ last' = [NoLast EXCEPT !.kind = "skip", !.pass = p, !.cat = c]
                /\ UNCHANGED <<elems, defs, running>>
           ELSE IF opt.type = "color"
           THEN /\ defs' = after.defs
                /\ elems' = after.elems
                /\ passes' = [passes EXCEPT ![p] =
                                [returned EXCEPT !.wrote =
                                    Record(@, docGen, elements, fillValue),
                                                 !.regions = @ \cup resolved]]
                /\ last' = [kind |-> "color", pass |-> p, cat |-> c,
                            regions |-> SeqRange(elements), fill |-> fillValue,
                            value |-> opt.value]
                /\ UNCHANGED running
           ELSE /\ passes' = [passes EXCEPT ![p] =
                                [ps EXCEPT !.status = "waiting",
                                           !.elements = elements,
                                           !.elemGen = docGen,
                                           !.regions = @ \cup resolved,
                                           !.log = Append(@, <<"begin", c>>)]]
                /\ running' = 0
                /\ UNCHANGED <<elems, defs, last>>
    /\ UNCHANGED <<sceneId, selections, svgReady, svgLoadedRef, lastSelectionsRef,
                   loads, docGen, docScene, viewBox, lastApplied, selectedThemeId>>
    /\ UNCHANGED outside

\* pass q awaits the image of the material that pass p awaits, for the same
\* category
Overlaps(p, q) ==
    /\ q # p
    /\ passes[q].status = "waiting"
    /\ passes[q].step = passes[p].step
    /\ passes[q].sel[LayerOrder[passes[q].step]] = passes[p].sel[LayerOrder[passes[p].step]]

\* loadImage resolves: the rest of the try block of updateSurface
ImageLoaded(p) ==
    /\ running = 0
    /\ passes[p].status = "waiting"
    /\ LET ps == passes[p]
           c == LayerOrder[ps.step]
           opt == TextureMapGet(ps.sel[c])
           attached == ps.elemGen = docGen
           fillValue == Url(TexturePatternId(opt))
           after == SurfaceTexture(elems, defs,
                                   IF attached THEN ps.elements ELSE <<>>, opt, docGen)
       IN  /\ defs' = after.defs
           /\ elems' = after.elems
           /\ passes' = [q \in 1..Len(passes) |->
                            IF q = p
                            THEN [ps EXCEPT !.step = @ + 1, !.status = "running",
                                            !.log = Append(@, <<"end", c>>),
                                            !.loaded = @ \cup {c},
                                            !.wrote = Record(@, ps.elemGen, ps.elements,
                                                             fillValue)]
                            ELSE IF Overlaps(p, q)
                            THEN [passes[q] EXCEPT !.overlap = @ \cup {c}]
                            ELSE passes[q]]
           /\ last' = [kind |-> "texture", pass |-> p, cat |-> c,
                       regions |-> IF attached THEN SeqRange(ps.elements) ELSE {},
                       fill |-> fillValue, value |-> opt.value]
    /\ running' = p
    /\ UNCHANGED <<sceneId, selections, svgReady, svgLoadedRef, lastSelectionsRef,
                   loads, docGen, docScene, viewBox, lastApplied, selectedThemeId>>
    /\ UNCHANGED outside

\* loadImage rejects: the catch block of updateSurface
ImageFailed(p) ==
    /\ running = 0
    /\ passes[p].status = "waiting"
    /\ LET ps == passes[p]
           c == LayerOrder[ps.step]
           attached == ps.elemGen = docGen
           after == SurfaceFallback(elems, defs,
                                    IF attached THEN ps.elements ELSE <<>>)
       IN  /\ elems' = after.elems
           /\ passes' = [passes EXCEPT ![p] =
                            [Caught(ps, c) EXCEPT !.wrote =
                                Record(@, ps.elemGen, ps.elements, FallbackGray)]]
           /\ last' = [kind |-> "fallback", pass |-> p, cat |-> c,
                       regions |-> IF attached THEN SeqRange(ps.elements) ELSE {},
                       fill |-> FallbackGray, value |-> NoStr]
    /\ running' = IF passes'[p].status = "running" THEN p ELSE 0
    /\ UNCHANGED <<sceneId, selections, svgReady, defs, svgLoadedRef,
                   lastSelectionsRef, loads, docGen, docScene, viewBox, lastApplied,
                   selectedThemeId>>
    /\ UNCHANGED outside

\* applyTextures returns: loadSvg, or the effect's then-callback, calls
\* onSvgReady(svg)
PassDone(p) ==
    /\ running = p
    /\ passes[p].status = "running"
    /\ passes[p].step = Len(LayerOrder) + 1
    /\ passes' = [passes EXCEPT ![p] = DonePass]
    /\ svgReady' = TRUE
    /\ running' = 0
    /\ lastApplied' = IF passes[p].gen = docGen
                      THEN [gen |-> docGen,
                            key |-> SelectionsKey(passes[p].scene, passes[p].sel)]
                      ELSE lastApplied
    /\ UNCHANGED <<sceneId, selections, elems, defs, svgLoadedRef,
                   lastSelectionsRef, loads, docGen, docScene, last, viewBox,
                   selectedThemeId>>
    /\ UNCHANGED outside

Next ==
    \/ \E c \in Categories : \E id \in IdsOf(c) : HandleSelect(c, id)
    \/ \E theme \in Themes : HandleThemeSelect(theme)
    \/ Rerender
    \/ \E s \in SceneIds : SceneSwitch(s)
    \/ \E l \in 1..Len(loads) : SvgFetched(l)
    \/ \E l \in 1..Len(loads) : SvgFetchedNotSvg(l)
    \/ \E l \in 1..Len(loads) : SvgFetchFailed(l)
    \/ \E p \in 1..Len(passes) : UpdateSurface(p)
    \/ \E p \in 1..Len(passes) : ImageLoaded(p)
    \/ \E p \in 1..Len(passes) : ImageFailed(p)
    \/ \E p \in 1..Len(passes) : PassDone(p)

Spec == Init /\ [][Next]_vars

\* ------------------------------------------------------ the App session
\* App.tsx from its mount on: the dashboard and the editor, the saved
\* designs and the default theme.  The canvas is seen only through
\* onSvgReady; its own steps are those of Spec.
MaxDesigns == 2

\* what the canvas holds while it is not mounted
CanvasUnmounted ==
    /\ elems = <<>>
    /\ defs = <<>>
    /\ svgLoadedRef = FALSE
    /\ lastSelectionsRef = NoKey
    /\ loads = <<>>
    /\ passes = <<>>
    /\ running = 0
    /\ docGen = 0
    /\ docScene = ""
    /\ last = NoLast
    /\ viewBox = NoViewBox
    /\ lastApplied = NoApplied

\* what no step of the App session touches
besideApp == <<elems, defs, svgLoadedRef, lastSelectionsRef, loads, passes, running,
               docGen, docScene, last, viewBox, lastApplied, cache, fetches,
               grout, resolve, export>>

\* a SavedDesign as saveDesign stores it (name, dates and thumbnail left out)
Design(sel, scn, themeId) == [selections |-> sel, sceneId |-> scn, themeId |-> themeId]

\* a design kept in localStorage from an earlier visit, saved when the
\* catalog still listed the material countertop-marble
EarlierDesign ==
    Design([DefaultSelections EXCEPT !["countertop"] = "countertop-marble"],
           "kitchen-preview", NoTheme)

\* scenes.find(s => s.id === selectedSceneId) ?? scenes[0], the default
\* scene when selectedSceneId is null
SceneOf(selectedSceneId) ==
    IF selectedSceneId \in SceneIds THEN selectedSceneId ELSE DefaultSceneId

\* getThemeById(id): the theme or undefined (a record without id)
getThemeById(id) ==
    IF \E t \in Themes : t.id = id
    THEN CHOOSE t \in Themes : t.id = id
    ELSE [id |-> NoTheme]

\* an effect that applies the default theme whenever the content is ready,
\* a design having been loaded or not
DefaultThemeAlways(ready, loaded, sel, themeId) ==
    LET defaultTheme == getThemeById("classic-wood")
    IN  IF ready /\ defaultTheme.id # NoTheme
        THEN [selections |-> ThemeSelections(defaultTheme), themeId |-> defaultTheme.id]
        ELSE [selections |-> sel, themeId |-> themeId]

\* the effect on [contentReady, hasLoadedDesign]: the selection and the
\* marker it leaves
DefaultThemeEffect(ready, loaded, sel, themeId) ==
    LET defaultTheme == getThemeById("classic-wood")
    IN  IF ready /\ ~loaded /\ defaultTheme.id # NoTheme
        THEN [selections |-> ThemeSelections(defaultTheme), themeId |-> defaultTheme.id]
        ELSE [selections |-> sel, themeId |-> themeId]

\* App has just been mounted: the dashboard is shown, the three loads of
\* the content are under way
AppInit ==
    /\ view = "dashboard"
    /\ sceneId = DefaultSceneId
    /\ selections = DefaultSelections
    /\ selectedThemeId = NoTheme
    /\ hasLoadedDesign = FALSE
    /\ contentReady = FALSE
    /\ svgReady = FALSE
    /\ storage \in {{}, {EarlierDesign}}
    /\ CanvasUnmounted
    /\ ContentIdle
    /\ grout = NoGrout
    /\ resolve = NoResolve
    /\ export = NoExport

\* Promise.all([loadTextures(), loadScenes(), loadThemes()]) resolves:
\* setContentReady(true), then the default theme effect
ContentLoaded ==
    /\ ~contentReady
    /\ contentReady' = TRUE
    /\ LET after == DefaultThemeEffect(TRUE, hasLoadedDesign, selections, selectedThemeId)
       IN  /\ selections' = after.selections
           /\ selectedThemeId' = after.themeId
    /\ UNCHANGED <<view, sceneId, hasLoadedDesign, svgReady, storage, besideApp>>

\* handleNewDesign, and the default theme effect when hasLoadedDesign changed
HandleNewDesign ==
    /\ view = "dashboard"
    /\ view' = "editor"
    /\ sceneId' = SceneOf("")
    /\ hasLoadedDesign' = FALSE
    /\ LET after == IF hasLoadedDesign
                    THEN DefaultThemeEffect(contentReady, FALSE, DefaultSelections, NoTheme)
                    ELSE [selections |-> DefaultSelections, themeId |-> NoTheme]
       IN  /\ selections' = after.selections
           /\ selectedThemeId' = after.themeId
    /\ UNCHANGED <<contentReady, svgReady, storage, besideApp>>

\* handleLoadDesign(design) for a design the dashboard lists, and the
\* default theme effect when hasLoadedDesign changed
HandleLoadDesign(design) ==
    /\ view = "dashboard"
    /\ design \in storage
    /\ view' = "editor"
    /\ sceneId' = SceneOf(design.sceneId)
    /\ hasLoadedDesign' = TRUE
    /\ LET after == IF ~hasLoadedDesign
                    THEN DefaultThemeEffect(contentReady, TRUE, design.selections,
                                            design.themeId)
                    ELSE [selections |-> design.selections, themeId |-> design.themeId]
       IN  /\ selections' = after.selections
           /\ selectedThemeId' = after.themeId
    /\ UNCHANGED <<contentReady, svgReady, storage, besideApp>>

\* handleSelect(category)(id) in the editor
EditorSelect(c, id) ==
    /\ view = "editor"
    /\ SelectMaterial(c, id)
    /\ UNCHANGED <<view, sceneId, hasLoadedDesign, contentReady, svgReady, storage,
                   besideApp>>

\* handleThemeSelect(theme) in the editor
EditorThemeSelect(theme) ==
    /\ view = "editor"
    /\ SelectTheme(theme)
    /\ UNCHANGED <<view, sceneId, hasLoadedDesign, contentReady, svgReady, storage,
                   besideApp>>

\* the scene <select>: setSelectedSceneId(e.target.value)
EditorSceneSelect(s) ==
    /\ view = "editor"
    /\ s # sceneId
    /\ sceneId' = SceneOf(s)
    /\ UNCHANGED <<view, selections, selectedThemeId, hasLoadedDesign, contentReady,
                   svgReady, storage, besideApp>>

\* the canvas calls onSvgReady(svg): svgRef.current is the svg
CanvasReady ==
    /\ view = "editor"
    /\ ~svgReady
    /\ svgReady' = TRUE
    /\ UNCHANGED <<view, sceneId, selections, selectedThemeId, hasLoadedDesign,
                   contentReady, storage, besideApp>>

\* handleSaveDesign with a name typed in and the thumbnail generated
HandleSaveDesign ==
    /\ view = "editor"
    /\ svgReady
    /\ Cardinality(storage) < MaxDesigns
    /\ storage' = storage \cup {Design(selections, sceneId, selectedThemeId)}
    /\ view' = "dashboard"
    /\ svgReady' = FALSE
    /\ UNCHANGED <<sceneId, selections, selectedThemeId, hasLoadedDesign,
                   contentReady, besideApp>>

\* the back button: setView('dashboard'); the canvas unmounts and its
\* cleanup calls onSvgReady(null)
BackToDashboard ==
    /\ view = "editor"
    /\ view' = "dashboard"
    /\ svgReady' = FALSE
    /\ UNCHANGED <<sceneId, selections, selectedThemeId, hasLoadedDesign,
                   contentReady, storage, besideApp>>

AppNext ==
    \/ ContentLoaded
    \/ HandleNewDesign
    \/ \E design \in storage : HandleLoadDesign(design)
    \/ \E c \in Categories : \E id \in IdsOf(c) : EditorSelect(c, id)
    \/ \E theme \in Themes : EditorThemeSelect(theme)
    \/ \E s \in SceneIds : EditorSceneSelect(s)
    \/ CanvasReady
    \/ HandleSaveDesign
    \/ BackToDashboard

AppSpec == AppInit /\ [][AppNext]_vars


\* --------------------------------------------------- region resolution
\* App and canvas as they are before anything is shown
NothingShown ==
    /\ view = "dashboard"
    /\ sceneId = DefaultSceneId
    /\ selections = DefaultSelections
    /\ selectedThemeId = NoTheme
    /\ hasLoadedDesign = FALSE
    /\ contentReady = FALSE
    /\ svgReady = FALSE
    /\ storage = {}
    /\ export = NoExport
    /\ CanvasUnmounted

\* the artwork of a scene after updateSurface has applied one material to it
Painted(scn, t) ==
    LET els == Artwork(scn)
        elements == Selectors(scn, els, t.category)
    IN  IF t.type = "color"
        THEN SurfaceColor(els, <<>>, elements, t, t.category = "floor", 1).elems
        ELSE SurfaceTexture(els, <<>>, elements, t, 1).elems

\* the colours a path of an artwork may carry: every literal of the
\* selectors as written and in lower case, and colours that are in no list
PathColors ==
    LET listed == SeqRange(BackgroundColors) \cup SeqRange(FloorColors)
                  \cup SeqRange(CountertopColors) \cup SeqRange(CabinetColors)
                  \cup SeqRange(BacksplashCabinetColors)
                  \cup SeqRange(BacksplashBackgroundColors)
    IN  listed \cup {ToLower(c) : c \in listed}
        \cup { <<"#","f","f","f","f","f","f">>, <<"#","E","E","E","E","E","E">>,
               <<"#","d","0","d","0","d","0">>, <<"#","f","f","f">>,
               <<"#","3","3","3","3","3","3">>, <<"#","c","c","c">> }

\* an artwork of one path whose colour is given by the fill attribute, by
\* the inline style or by a stylesheet rule
OnePathDocuments ==
    {<< El("", "path", col, NoStr, NoStr, 0) >> : col \in PathColors}
    \cup {<< El("", "path", NoStr, col, NoStr, 0) >> : col \in PathColors}
    \cup {<< El("", "path", NoStr, NoStr, col, 0) >> : col \in PathColors}

\* the id-based artwork with its elements in the opposite document order
ArtworkIdBasedReversed ==
    [i \in 1..Len(ArtworkIdBased) |-> ArtworkIdBased[Len(ArtworkIdBased) + 1 - i]]

\* the documents as svg.innerHTML = importedSvg.innerHTML leaves them
FreshDocuments ==
    {Artwork(scn) : scn \in SceneIds} \cup {ArtworkIdBasedReversed} \cup OnePathDocuments

\* the documents a selector is called on: an artwork as loaded, or with
\* one catalog material applied
Documents == FreshDocuments
             \cup {Painted(scn, t) : scn \in SceneIds, t \in Catalog}

\* a selector that takes the elements it finds out of play: their id and
\* fill are gone after the call
DocumentWithoutFound(els, found) ==
    [i \in 1..Len(els) |->
        IF i \in SeqRange(found)
        THEN [els[i] EXCEPT !.id = "", !.fill = NoStr, !.style = NoStr, !.css = NoStr]
        ELSE els[i]]

\* the document after a selector has run: the selectors only read it
\* (querySelector, querySelectorAll, getAttribute, getComputedStyle)
DocumentAfterResolve(els, found) == els

ResolveInit ==
    /\ resolve \in [scene : SceneIds, category : Categories, els : Documents,
                     calls : {0}, first : {<<>>}, second : {<<>>}]
    /\ NothingShown
    /\ ContentIdle
    /\ grout = NoGrout

\* getSceneSelectors(scene, svg)[category]() called on the document
ResolveFirst ==
    /\ resolve.calls = 0
    /\ LET found == Selectors(resolve.scene, resolve.els, resolve.category)
       IN  resolve' = [resolve EXCEPT !.calls = 1, !.first = found,
                                      !.els = DocumentAfterResolve(@, found)]
    /\ UNCHANGED <<canvas, view, hasLoadedDesign, contentReady, storage, cache,
                   fetches, grout, export>>

\* the same selector called again, nothing having touched the document
ResolveSecond ==
    /\ resolve.calls = 1
    /\ LET found == Selectors(resolve.scene, resolve.els, resolve.category)
       IN  resolve' = [resolve EXCEPT !.calls = 2, !.second = found,
                                      !.els = DocumentAfterResolve(@, found)]
    /\ UNCHANGED <<canvas, view, hasLoadedDesign, contentReady, storage, cache,
                   fetches, grout, export>>

ResolveNext == ResolveFirst \/ ResolveSecond

ResolveSpec == ResolveInit /\ [][ResolveNext]_vars

\* ------------------------------------------------------- grout colour
\* the values a colour channel is drawn from
Channels == {0, 1, 2, 3, 127, 128, 254, 255}

\* '#rrggbb' for every combination of those channel values
HexColors == {rgbToHex([r |-> r, g |-> g, b |-> b]) : r \in Channels, g \in Channels,
                                                      b \in Channels}

\* 1000 times 0.299 R + 0.587 G + 0.114 B of a '#rrggbb' colour
Luminance(color) ==
    LET c == ParseRgb(color) IN 299 * c.r + 587 * c.g + 114 * c.b

GroutInit ==
    /\ grout \in [color : HexColors, result : {NoStr}]
    /\ NothingShown
    /\ ContentIdle
    /\ resolve = NoResolve

\* createTilePattern's call adjustColorBrightness(baseColor, -15)
AdjustColorBrightness ==
    /\ grout.result = NoStr
    /\ grout' = [grout EXCEPT !.result = adjustColorBrightness(grout.color, -15)]
    /\ UNCHANGED <<canvas, view, hasLoadedDesign, contentReady, storage, cache,
                   fetches, resolve, export>>

GroutNext == AdjustColorBrightness

GroutSpec == GroutInit /\ [][GroutNext]_vars

\* --------------------------------------------------------- lib/content
MaxCalls == 3

\* one record of a dataset: its id and its order field
Item(id, order) == [id |-> id, order |-> order]

\* a parsed JSON document: a bare array, an object with one named array
\* field, or null
Json(shape, field, items) == [shape |-> shape, field |-> field, items |-> items]

\* what fetchJson returns when the response is not ok, fetch rejects or
\* res.json() throws
Null == Json("null", "", <<>>)

\* textures.json, scenes.json and themes.json as bundled, in file order
Bundled(k) ==
    CASE k = "textures" ->
           Json("array", "", << Item("countertop-granite", 3), Item("bg-soft-white", 1),
                                Item("countertop-cream", 4), Item("floor-slate", 2),
                                Item("backsplash-white", 5), Item("cabinet-navy", 6) >>)
      [] k = "scenes" ->
           Json("object", "scenes", << Item("kitchen-preview-2", 2),
                                       Item("kitchen-preview", 1) >>)
      [] k = "themes" ->
           Json("object", "themes", << Item("classic-wood", 1), Item("modern-light", 2) >>)

\* the records content/<k>.json holds on the server, as the CMS saved them
RemoteItems(k) ==
    CASE k = "textures" -> << Item("countertop-quartz", 2), Item("bg-soft-white", 1) >>
      [] k = "scenes" -> << Item("kitchen-preview", 1) >>
      [] k = "themes" -> << Item("texture-rustic", 2), Item("classic-wood", 1) >>

\* the bodies a successful response may carry
RemoteBodies(k) ==
    { Json("array", "", RemoteItems(k)), Json("object", k, RemoteItems(k)), Null }

\* normalizeTextures / normalizeScenes / normalizeThemes
normalize(k, data) ==
    IF data.shape = "array" THEN data.items
    ELSE IF data.shape = "object" /\ data.field = k THEN data.items
    ELSE <<>>

\* x put behind the last record of a sorted list whose order is not greater
RECURSIVE InsertByOrder(_, _)
InsertByOrder(sorted, x) ==
    IF sorted = <<>> THEN <<x>>
    ELSE IF sorted[Len(sorted)].order <= x.order THEN Append(sorted, x)
    ELSE Append(InsertByOrder(SubSeq(sorted, 1, Len(sorted) - 1), x), sorted[Len(sorted)])

\* a loader that caches and returns the list in the order of its source
Unsorted(list) == list

\* list.sort((a, b) => a.order - b.order), which is stable
RECURSIVE SortByOrder(_)
SortByOrder(list) ==
    IF list = <<>> THEN <<>>
    ELSE InsertByOrder(SortByOrder(SubSeq(list, 1, Len(list) - 1)), list[Len(list)])

\* a loader that normalizes whatever fetchJson returned
LoadedListNoFallback(k, data) == normalize(k, data)

\* data ? normalize(data) : normalize(bundled)
LoadedList(k, data) ==
    IF data # Null THEN normalize(k, data) ELSE normalize(k, Bundled(k))

\* getTextures / getScenes / getThemes with the cache as given
getList(c, k) ==
    IF c[k].cached THEN c[k].list ELSE SortByOrder(normalize(k, Bundled(k)))

\* the category field of a texture record
ItemCategory(id) ==
    IF TextureMapGet(id) # NoOpt THEN TextureMapGet(id).category
    ELSE IF id = "countertop-quartz" THEN "countertop"
    ELSE ""

\* getTexturesByCategory(category) with the cache as given
getTexturesByCategory(c, category) ==
    SelectSeq(getList(c, "textures"), LAMBDA t : ItemCategory(t.id) = category)

\* what no step of lib/content touches
besideContent == <<canvas, view, hasLoadedDesign, contentReady, storage, grout, resolve,
                   export>>

ContentInit ==
    /\ ContentIdle
    /\ NothingShown
    /\ grout = NoGrout
    /\ resolve = NoResolve

\* loadTextures / loadScenes / loadThemes is called: it returns the cache,
\* or starts fetchJson
StartLoad(k) ==
    /\ Len(fetches) < MaxCalls
    /\ fetches' = Append(fetches,
                         IF cache[k].cached
                         THEN [kind |-> k, status |-> "returned", outcome |-> "cached",
                               result |-> cache[k].list]
                         ELSE [kind |-> k, status |-> "fetching", outcome |-> "",
                               result |-> <<>>])
    /\ UNCHANGED <<cache, besideContent>>

\* the rest of a load once fetchJson has returned data
FinishLoad(i, data, outcome) ==
    LET k == fetches[i].kind
        list == SortByOrder(LoadedList(k, data))
    IN  /\ fetches[i].status = "fetching"
        /\ cache' = [cache EXCEPT ![k] = [cached |-> TRUE, list |-> list]]
        /\ fetches' = [fetches EXCEPT ![i] = [kind |-> k, status |-> "returned",
                                               outcome |-> outcome, result |-> list]]
        /\ UNCHANGED besideContent

\* the response is ok and its body parses
FetchSucceeded(i, body) == FinishLoad(i, body, "ok")

\* fetch rejects, the response is not ok, or res.json() throws: fetchJson
\* returns null
FetchFailed(i, why) == FinishLoad(i, Null, why)

ContentNext ==
    \/ \E k \in Kinds : StartLoad(k)
    \/ \E i \in 1..Len(fetches) : \E body \in RemoteBodies(fetches[i].kind) :
          FetchSucceeded(i, body)
    \/ \E i \in 1..Len(fetches) : \E why \in {"network", "not-ok", "bad-json"} :
          FetchFailed(i, why)

ContentSpec == ContentInit /\ [][ContentNext]_vars

\* ------------------------------------------------------------ PDF export
MaxExports == 3

\* one call of handleExportPdf: what failed in it ("" for nothing), whether
\* pdf.save produced a file, whether the preview image is in it, how many
\* alerts the handler raised, and whether the call has returned
Attempt(failure, pdf, image, alerts, done) ==
    [failure |-> failure, pdf |-> pdf, image |-> image, alerts |-> alerts, done |-> done]

\* the editor is shown; the canvas has not yet called onSvgReady
ExportInit ==
    /\ view = "editor"
    /\ sceneId = DefaultSceneId
    /\ selections = DefaultSelections
    /\ selectedThemeId = NoTheme
    /\ hasLoadedDesign = FALSE
    /\ contentReady = TRUE
    /\ svgReady = FALSE
    /\ storage = {}
    /\ export = NoExport
    /\ CanvasUnmounted
    /\ ContentIdle
    /\ grout = NoGrout
    /\ resolve = NoResolve

\* what no step of an export touches
besideExport == <<canvas, view, hasLoadedDesign, contentReady, storage, cache, fetches,
                  grout, resolve>>

\* the attempt under way closed with the given record
EndAttempt(attempt) ==
    [isExporting |-> FALSE, phase |-> "idle",
     attempts |-> [export.attempts EXCEPT ![Len(export.attempts)] = attempt]]

\* handleExportPdf up to its await of captureSvgAsImage, which has cloned
\* and serialized the svg and set img.src
HandleExportPdf ==
    /\ view = "editor"
    /\ svgReady
    /\ ~export.isExporting
    /\ Len(export.attempts) < MaxExports
    /\ export' = [isExporting |-> TRUE, phase |-> "capturing",
                  attempts |-> Append(export.attempts, Attempt("", FALSE, FALSE, 0, FALSE))]
    /\ UNCHANGED besideExport

\* captureSvgAsImage rejects (img.onerror, or getContext('2d') returns
\* null in img.onload): the catch block of handleExportPdf alerts, the
\* finally block clears isExporting; exportToPdf is not called
CaptureFailed(why) ==
    /\ export.phase = "capturing"
    /\ export' = EndAttempt(Attempt(why, FALSE, FALSE, 1, TRUE))
    /\ UNCHANGED besideExport

\* captureSvgAsImage resolves with the data URL: exportToPdf builds the
\* header and awaits the load of the preview image
CaptureSucceeded ==
    /\ export.phase = "capturing"
    /\ export' = [export EXCEPT !.phase = "decoding"]
    /\ UNCHANGED besideExport

\* the preview image loads: addImage, the rest of the pages, pdf.save
PreviewDecoded ==
    /\ export.phase = "decoding"
    /\ export' = EndAttempt(Attempt("", TRUE, TRUE, 0, TRUE))
    /\ UNCHANGED besideExport

\* the preview image fails to load or the 5 s timer fires first: the catch
\* block inside exportToPdf writes 'Preview image unavailable', the rest of
\* the pages follow, pdf.save; exportToPdf returns normally
PreviewFailed(why) ==
    /\ export.phase = "decoding"
    /\ export' = EndAttempt(Attempt(why, TRUE, FALSE, 0, TRUE))
    /\ UNCHANGED besideExport

\* the canvas calls onSvgReady(svg) while no export is under way
ExportCanvasReady == CanvasReady

ExportNext ==
    \/ ExportCanvasReady
    \/ HandleExportPdf
    \/ \E why \in {"svg-image-error", "no-canvas-context"} : CaptureFailed(why)
    \/ CaptureSucceeded
    \/ PreviewDecoded
    \/ \E why \in {"decode-error", "decode-timeout"} : PreviewFailed(why)

ExportSpec == ExportInit /\ [][ExportNext]_vars

\* --------------------------------------------------------------- claims
Passes == 1..Len(passes)

IsPrefix(a, b) == Len(a) <= Len(b) /\ SubSeq(b, 1, Len(a)) = a

\* what one pass logs when it handles background, floor, countertop,
\* backsplash and cabinet in that order, finishing each before the next
OrderedLog ==
    << <<"begin", "background">>, <<"end", "background">>,
       <<"begin", "floor">>, <<"end", "floor">>,
       <<"begin", "countertop">>, <<"end", "countertop">>,
       <<"begin", "backsplash">>, <<"end", "backsplash">>,
       <<"begin", "cabinet">>, <<"end", "cabinet">> >>

\* the elements one pass resolved for both the countertop and the cabinet
SharedRegions(p) ==
    {w \in passes[p].wrote :
        /\ [cat |-> "countertop", gen |-> w.gen, idx |-> w.idx] \in passes[p].regions
        /\ [cat |-> "cabinet", gen |-> w.gen, idx |-> w.idx] \in passes[p].regions}

\* the fill a pass gives to the regions of category c
FillOf(p, c) ==
    LET opt == TextureMapGet(passes[p].sel[c])
    IN  IF opt.type = "color"
        THEN (IF c = "floor" THEN Url(FloorPatternId) ELSE opt.value)
        ELSE IF c \in passes[p].failed THEN FallbackGray
        ELSE Url(TexturePatternId(opt))

\* C1: within one pass the categories are applied in the order background,
\* floor, countertop, backsplash, cabinet, each finished (image fetch
\* included) before the next begins; so once the cabinet has been applied, an
\* element resolved for both countertop and cabinet was last written by the
\* pass with the cabinet's fill.
C1_LayeringOrder ==
    \A p \in Passes :
        InFlight(p) =>
            /\ IsPrefix(passes[p].log, OrderedLog)
            /\ passes[p].status = "waiting" =>
                    passes[p].log[Len(passes[p].log)][1] = "begin"
            /\ passes[p].status = "running" => Len(passes[p].log) % 2 = 0
            /\ <<"end", "cabinet">> \in SeqRange(passes[p].log) =>
                    \A w \in SharedRegions(p) : w.fill = FillOf(p, "cabinet")

C1_Witness ==
    \E p \in Passes :
        /\ InFlight(p)
        /\ passes[p].log = OrderedLog
        /\ SharedRegions(p) # {}

\* C5 as claimed: after a flat-colour material has been applied to any of
\* the five categories, the fill attribute and the inline style fill of every
\* resolved region equal the material's hex value.
C5_FlatColorHexEverywhere ==
    last.kind = "color" =>
        \A i \in last.regions :
            elems[i].fill = last.value /\ elems[i].style = last.value

\* C5 amended: that holds for countertop, backsplash, cabinet and background;
\* for the floor the attribute and the style both reference the tile pattern
\* url(#floor-tile-pattern), and the one tile pattern in the document has the
\* material's hex value as its tile face.
C5_FlatColorFill ==
    last.kind = "color" =>
        /\ \A i \in last.regions :
              IF last.cat = "floor"
              THEN elems[i].fill = Url(FloorPatternId) /\ elems[i].style = Url(FloorPatternId)
              ELSE elems[i].fill = last.value /\ elems[i].style = last.value
        /\ last.cat = "floor" =>
              /\ Cardinality({k \in 1..Len(defs) : defs[k].id = FloorPatternId}) = 1
              /\ \A k \in 1..Len(defs) :
                    defs[k].id = FloorPatternId => defs[k].face = last.value

C5_Witness ==
    /\ last.kind = "color"
    /\ last.cat = "cabinet"
    /\ last.regions # {}
    /\ \A c \in Categories : TextureMapGet(passes[last.pass].sel[c]).type = "color"
    /\ \A c \in Categories :
          \E r \in passes[last.pass].regions : r.cat = c /\ r.gen = docGen

\* updateSurface as one synchronous step: resolve, then paint as the image
\* fetch allows (ok) or falls back
ApplyMaterial(els, ds, scn, c, opt, ok, gen) ==
    LET elements == Selectors(scn, els, c)
    IN  IF opt = NoOpt \/ elements = <<>> \/ opt.type \notin {"color", "texture"}
        THEN [elems |-> els, defs |-> ds]
        ELSE IF opt.type = "color"
        THEN SurfaceColor(els, ds, elements, opt, c = "floor", gen)
        ELSE IF ok THEN SurfaceTexture(els, ds, elements, opt, gen)
        ELSE SurfaceFallback(els, ds, elements)

PatternCount(ds, patternId) == Cardinality({k \in 1..Len(ds) : ds[k].id = patternId})

\* C6: applying one material to one category twice in a row leaves the
\* document as applying it once does; no pattern id is ever defined twice;
\* and after a texture has been applied (also by the second of two passes
\* whose fetches overlapped) its regions reference the one pattern
\* texture-<id> of the document.
C6_Idempotent ==
    /\ \A k \in 1..Len(defs) : PatternCount(defs, defs[k].id) = 1
    /\ last.kind = "texture" =>
          /\ PatternCount(defs, SubSeq(last.fill, 2, 3)) = 1
          /\ \A i \in last.regions :
                elems[i].fill = last.fill /\ elems[i].style = last.fill
    /\ svgLoadedRef =>
          \A scn \in SceneIds : \A opt \in Catalog : \A ok \in BOOLEAN :
              LET once == ApplyMaterial(elems, defs, scn, opt.category, opt, ok, docGen)
                  twice == ApplyMaterial(once.elems, once.defs, scn, opt.category,
                                         opt, ok, docGen)
              IN  /\ twice = once
                  /\ \A k \in 1..Len(twice.defs) :
                        PatternCount(twice.defs, twice.defs[k].id) = 1

\* a pass has applied a texture that another pass applied to the same
\* category while this pass was awaiting the image
C6_Witness ==
    /\ last.kind = "texture"
    /\ last.regions # {}
    /\ passes[last.pass].status = "running"
    /\ last.cat \in passes[last.pass].overlap
    /\ last.cat \in passes[last.pass].loaded


\* C7: an image that fails to load is contained in its category: the
\* captured regions get the gray fallback on attribute and style, no pass
\* ends rejected, the failing pass goes on with the next category, and a pass
\* that reaches its end has been through all five categories.
C7_FailureContained ==
    /\ \A p \in Passes : passes[p].status # "rejected"
    /\ \A p \in Passes :
          InFlight(p) /\ passes[p].step = Len(LayerOrder) + 1 =>
              passes[p].log = OrderedLog
    /\ last.kind = "fallback" =>
          /\ \A i \in last.regions :
                elems[i].fill = FallbackGray /\ elems[i].style = FallbackGray
          /\ \/ passes[last.pass] = DonePass
             \/ /\ passes[last.pass].status = "running"
                /\ passes[last.pass].step <= Len(LayerOrder)
                /\ LayerOrder[passes[last.pass].step - 1] = last.cat

\* the countertop image has failed, its regions are gray, and the pass has
\* gone on to apply backsplash and cabinet
C7_Witness ==
    \E p \in Passes :
        /\ passes[p].status = "running"
        /\ passes[p].step = Len(LayerOrder) + 1
        /\ "countertop" \in passes[p].failed
        /\ \E w \in passes[p].wrote : w.gen = docGen /\ w.fill = FallbackGray
        /\ last.kind = "color" /\ last.cat = "cabinet" /\ last.pass = p
        /\ last.regions # {}

\* C10: every pattern definition in the document was created while the
\* installed artwork was loaded, none while an earlier artwork was; and a
\* texture that has just been applied is referenced through a definition
\* created in the installed document.
C10_FreshPatterns ==
    /\ \A k \in 1..Len(defs) : defs[k].gen = docGen
    /\ last.kind = "texture" =>
          \E k \in 1..Len(defs) :
              /\ Url(defs[k].id) = last.fill
              /\ defs[k].gen = docGen
              /\ \A i \in last.regions : elems[i].fill = Url(defs[k].id)

\* the second artwork is installed and a texture has been applied to its
\* regions
C10_Witness ==
    /\ docGen = 2
    /\ docScene = "kitchen-preview-2"
    /\ last.kind = "texture"
    /\ last.regions # {}
    /\ \E k \in 1..Len(defs) : defs[k].kind = "texture"

\* C2: at most one composite pass is in flight at any time.
C2_OnePassAtATime == Cardinality({p \in Passes : InFlight(p)}) <= 1

Quiescent ==
    /\ svgLoadedRef
    /\ running = 0
    /\ \A l \in 1..Len(loads) : loads[l].status # "fetching"
    /\ \A p \in Passes : ~InFlight(p)

\* the fills a material may leave on a region of category c
ShownFills(c, opt) ==
    IF opt.type = "color"
    THEN {IF c = "floor" THEN Url(FloorPatternId) ELSE opt.value}
    ELSE {Url(TexturePatternId(opt)), FallbackGray}

\* C3: once the artwork is installed, every fetch has settled and no pass is
\* in flight, the regions of every category show the current selection.
C3_CurrentSelectionShown ==
    Quiescent =>
        \A c \in Categories :
            LET opt == TextureMapGet(selections[c])
            IN  opt # NoOpt =>
                    \A i \in SeqRange(Selectors(sceneId, elems, c)) :
                        elems[i].fill \in ShownFills(c, opt)

\* C4: when a pass completes and calls onSvgReady, no other pass is in
\* flight and every element the pass wrote still carries what it wrote.
C4_SnapshotReflectsPass ==
    [][\A p \in Passes :
          (passes[p].status = "running" /\ passes'[p].status = "done") =>
              /\ \A q \in Passes : q # p => ~InFlight(q)
              /\ \A w \in passes[p].wrote :
                    w.gen = docGen /\ elems[w.idx].fill = w.fill]_vars

\* C8: an image that resolves or fails after the document of its pass has
\* been replaced changes neither the pattern definitions nor the fills of
\* the installed document.
C8_StaleFetchDiscarded ==
    [][\A p \in Passes :
          (/\ passes[p].status = "waiting"
           /\ passes'[p].status # "waiting"
           /\ passes[p].elemGen # docGen) =>
              (defs' = defs /\ elems' = elems)]_vars

\* C9: while the installed artwork is not that of the current scene the
\* document is not ready, and every pass was started on the artwork of the
\* scene that was current when it started.
C9_PassOnlyWhenReady ==
    /\ docScene # sceneId => ~svgLoadedRef
    /\ \A p \in Passes :
          InFlight(p) => passes[p].onScene = passes[p].curScene

\* C11: a load of artwork that fails (the fetch rejects, the response is
\* not a success, or the body is no vector markup) installs nothing: the
\* viewBox, the contents and the pattern definitions of the displayed
\* document are what they were before the attempt.
C11_FailedLoadInstallsNothing ==
    [][\A l \in 1..Len(loads) :
          (loads[l].status = "fetching" /\ loads'[l].status \in {"failed", "unparsed"})
          => (elems' = elems /\ viewBox' = viewBox /\ defs' = defs)]_vars

\* C12: the selection effect starts no pass whose fingerprint (scene id and
\* the five material ids) is that of the last pass completed on the
\* installed document.
C12_NoRedundantPass ==
    [][(Len(passes') > Len(passes) /\ passes'[Len(passes')].origin = "effect")
       => ~ (/\ lastApplied.gen = docGen
             /\ lastApplied.key = SelectionsKey(passes'[Len(passes')].scene,
                                                passes'[Len(passes')].sel))]_vars

\* C13: handleThemeSelect(T) overwrites the selection in one step: after it
\* the five fields are T's five ids and the marker is T's id, and in no state
\* does a set marker stand beside fields that are not its theme's.
C13_ThemeAtomic ==
    [][/\ \A t \in Themes :
             HandleThemeSelect(t)
             => (selections' = ThemeSelections(t) /\ selectedThemeId' = t.id)
       /\ selectedThemeId' # NoTheme
          => \E t \in Themes :
                t.id = selectedThemeId' /\ selections' = ThemeSelections(t)]_vars

\* a theme other than the one the selection started from has been applied
C13_Witness ==
    /\ selectedThemeId = "modern-light"
    /\ selections = ThemeSelections(CHOOSE t \in Themes : t.id = "modern-light")
    /\ selections # DefaultSelections

\* C14: handleSelect(category)(id) sets that category's field to id, leaves
\* the other four fields as they were and clears the marker, also when the
\* resulting five ids are those of a theme.
C14_SelectClearsTheme ==
    [][\A c \in Categories : \A id \in IdsOf(c) :
          HandleSelect(c, id)
          => /\ selections'[c] = id
             /\ \A d \in Categories \ {c} : selections'[d] = selections[d]
             /\ selectedThemeId' = NoTheme]_vars

\* a direct selection has produced the five ids of a theme, and the marker
\* is null
C14_Witness ==
    /\ selectedThemeId = NoTheme
    /\ selections # DefaultSelections
    /\ \E t \in Themes : ThemeSelections(t) = selections

\* C15: in every state each non-empty selection field holds the id of a
\* catalog material of the field's category.
C15_SelectionsInCatalog ==
    \A c \in Categories :
        selections[c] # "" => \E t \in Catalog : t.id = selections[c] /\ t.category = c

\* C16: a pass does not depend on the settling of an image fetch to paint
\* the categories that come after it: once a pass is suspended on a fetch
\* and has no step left to take but the settling of that fetch, every later
\* category with a material and regions has been painted by the pass.
C16_LaterCategoriesPainted ==
    \A p \in Passes :
        (passes[p].status = "waiting" /\ running = 0) =>
            \A j \in (passes[p].step + 1)..Len(LayerOrder) :
                LET c == LayerOrder[j]
                IN  (/\ TextureMapGet(passes[p].sel[c]) # NoOpt
                     /\ Selectors(passes[p].scene, elems, c) # <<>>)
                    => <<"end", c>> \in SeqRange(passes[p].log)

\* C17: applying a material to one category changes the elements of that
\* category's regions only; in the id-based scene a flat-colour countertop
\* material sets the fill on every present countertop-surface-4 ... -21
\* element and leaves every other element as it was.
C17_OnlyOwnRegions ==
    [][(last' # last /\ last'.kind \in {"color", "texture", "fallback"})
       => /\ Len(elems') = Len(elems)
          /\ \A i \in 1..Len(elems) : i \notin last'.regions => elems'[i] = elems[i]
          /\ (/\ last'.kind = "color"
              /\ last'.cat = "countertop"
              /\ docScene = "kitchen-preview"
              /\ passes[last'.pass].scene = "kitchen-preview")
             => \A i \in 1..Len(elems) :
                   IF elems[i].id \in SeqRange(CountertopIds)
                   THEN elems'[i].fill = last'.value /\ elems'[i].style = last'.value
                   ELSE elems'[i] = elems[i]]_vars

\* the cream countertop has just been applied in the id-based scene: the
\* countertop elements carry it, the cabinet element does not
C17_Witness ==
    /\ last.kind = "color"
    /\ last.cat = "countertop"
    /\ docScene = "kitchen-preview"
    /\ last.value = <<"#","f","f","f","9","d","3">>
    /\ \E i \in last.regions :
          elems[i].id = "countertop-surface-5" /\ elems[i].fill = last.value
    /\ \E i \in 1..Len(elems) :
          elems[i].id = "cabinet-surface-1" /\ elems[i].style # last.value

C19_GroutDarker ==
    grout.result # NoStr => Luminance(grout.result) < Luminance(grout.color)

\* C20: a load whose fetch fails (network error, non-success response, a
\* body that is no JSON) returns, and returns the bundled dataset sorted by
\* order, which is what getTextures / getScenes / getThemes give after it.
C20_FallbackToBundled ==
    [][\A i \in 1..Len(fetches) :
          (/\ fetches[i].status = "fetching"
           /\ fetches'[i].status # "fetching"
           /\ fetches'[i].outcome \in {"network", "not-ok", "bad-json"})
          => /\ fetches'[i].status = "returned"
             /\ fetches'[i].result = SortByOrder(Bundled(fetches[i].kind).items)
             /\ getList(cache', fetches[i].kind) = fetches'[i].result]_vars

\* a load of the catalog has fallen back to the bundled textures after a
\* non-success response, another after a network error, and a load of the
\* scenes after a body that is no JSON
C20_Witness ==
    /\ \E i \in 1..Len(fetches) :
          /\ fetches[i].kind = "textures"
          /\ fetches[i].outcome = "not-ok"
          /\ fetches[i].result = SortByOrder(Bundled("textures").items)
          /\ fetches[i].result # Bundled("textures").items
    /\ \E i \in 1..Len(fetches) : fetches[i].outcome = "network"
    /\ \E i \in 1..Len(fetches) :
          fetches[i].kind = "scenes" /\ fetches[i].outcome = "bad-json"
    /\ getList(cache, "scenes") = SortByOrder(Bundled("scenes").items)

\* ascending by the order field
SortedByOrder(list) ==
    \A i \in 1..Len(list) : \A j \in i..Len(list) : list[i].order <= list[j].order

\* C21: every list a load returns, and every list getTextures,
\* getTexturesByCategory, getScenes and getThemes return, is ascending by the
\* order field, whether it comes from the cache, from the remote JSON (bare or
\* wrapped) or from the bundle, and whatever the order of the source.
C21_SortedByOrder ==
    /\ \A i \in 1..Len(fetches) :
          fetches[i].status = "returned" => SortedByOrder(fetches[i].result)
    /\ \A k \in Kinds : SortedByOrder(getList(cache, k))
    /\ \A c \in Categories : SortedByOrder(getTexturesByCategory(cache, c))

\* the remote catalog, unsorted on the server, has been loaded and sorted,
\* a later load has returned it from the cache, and the themes were loaded
\* from the bundle
C21_Witness ==
    /\ \E i \in 1..Len(fetches) :
          /\ fetches[i].kind = "textures"
          /\ fetches[i].outcome = "ok"
          /\ ~SortedByOrder(RemoteItems("textures"))
          /\ fetches[i].result = SortByOrder(RemoteItems("textures"))
    /\ \E i \in 1..Len(fetches) :
          fetches[i].outcome = "cached" /\ Len(fetches[i].result) = 2
    /\ Len(getTexturesByCategory(cache, "countertop")) = 1
    /\ ~cache["themes"].cached
    /\ ~SortedByOrder(Bundled("scenes").items)

\* C22: every export or capture failure (the svg cannot be rasterized, no
\* canvas context, the preview image fails to decode or times out) ends the
\* attempt as one reported failure: no PDF is produced, one alert is raised,
\* and isExporting is false again.
C22_ExportFailureTerminal ==
    \A i \in 1..Len(export.attempts) :
        LET a == export.attempts[i]
        IN  (a.done /\ a.failure # "") =>
                /\ ~a.pdf
                /\ a.alerts = 1
                /\ i = Len(export.attempts) => ~export.isExporting

\* the viewBox of the document a load has just installed
InstalledViewBox(l) ==
    IF loads'[l].status = "installed" THEN ArtworkViewBox(loads[l].scene)
    ELSE <<0, 0, 1359, 877>>

ArtworkInstalled ==
    svgLoadedRef /\ elems # <<>> /\ elems[1].tag # "parsererror"

\* C24: in the colour-classified scene the elements resolved for each
\* category are, after any sequence of passes, those resolved on the
\* freshly loaded artwork.
C24_ColorRegionsStable ==
    (ArtworkInstalled /\ docScene = "kitchen-preview-2") =>
        \A c \in Categories :
            Selectors("kitchen-preview-2", elems, c)
                = Selectors("kitchen-preview-2", Artwork("kitchen-preview-2"), c)

\* the reference colours of a category as the selector compares them
ReferenceColors(c) ==
    {NormalizeColor(col) : col \in SeqRange(
        CASE c = "background" -> BackgroundColors
          [] c = "floor" -> FloorColors
          [] c = "countertop" -> CountertopColors
          [] c = "cabinet" -> CabinetColors
          [] OTHER -> <<>>)}

\* C25: in the colour-classified scene, on a freshly loaded document, no
\* element is resolved into more than one category: the reference colours of
\* background, floor, countertop and cabinet are pairwise disjoint, and the
\* backsplash heuristic selects no element whose colour is a reference colour
\* of one of those four.
C25_DisjointCategories ==
    /\ \A c, d \in Categories : c # d => ReferenceColors(c) \cap ReferenceColors(d) = {}
    /\ (/\ resolve.calls >= 1
        /\ resolve.scene = "kitchen-preview-2"
        /\ resolve.els \in FreshDocuments)
       => \A i \in SeqRange(resolve.first) :
             /\ \A d \in Categories \ {resolve.category} :
                   i \notin SeqRange(Selectors("kitchen-preview-2", resolve.els, d))
             /\ resolve.category = "backsplash" =>
                   \A d \in Categories :
                       getElementFillColor(resolve.els, i) \notin ReferenceColors(d)

\* a path filled #FFF9D3, a light colour, has been resolved as a cabinet,
\* and the backsplash selector does not find it
C25_Witness ==
    /\ resolve.calls >= 1
    /\ resolve.scene = "kitchen-preview-2"
    /\ resolve.category = "cabinet"
    /\ resolve.els = << El("", "path", <<"#","F","F","F","9","D","3">>, NoStr, NoStr, 0) >>
    /\ resolve.first = << 1 >>
    /\ Selectors("kitchen-preview-2", resolve.els, "backsplash") = <<>>

\* the fixed id list of a category in the id-based scene
IdList(c) ==
    CASE c = "background" -> << "background-surface" >>
      [] c = "floor" -> FloorIds
      [] c = "countertop" -> CountertopIds
      [] c = "backsplash" -> BacksplashIds
      [] c = "cabinet" -> CabinetIds

\* the place of an id in a list
IndexOf(ids, id) == CHOOSE k \in 1..Len(ids) : ids[k] = id

\* C26: in the id-based scene the regions resolved for a category are exactly
\* the elements of the document whose id is in the category's list, each once,
\* in the order of the list; ids that are not in the document are skipped.
C26_ListedIdsInListOrder ==
    (resolve.calls >= 1 /\ resolve.scene = "kitchen-preview") =>
        LET ids == IdList(resolve.category)
            els == resolve.els
            found == resolve.first
        IN  /\ \A k \in 1..Len(found) : els[found[k]].id \in SeqRange(ids)
            /\ \A i \in 1..Len(els) :
                  els[i].id \in SeqRange(ids) => i \in SeqRange(found)
            /\ \A a, b \in 1..Len(found) :
                  a < b => IndexOf(ids, els[found[a]].id) < IndexOf(ids, els[found[b]].id)

\* on the artwork in reversed document order the countertop selector has
\* returned countertop-surface-4 before countertop-surface-5, and nothing
\* for the sixteen ids the document does not have
C26_Witness ==
    /\ resolve.calls >= 1
    /\ resolve.scene = "kitchen-preview"
    /\ resolve.category = "countertop"
    /\ resolve.els = ArtworkIdBasedReversed
    /\ Len(resolve.first) = 2
    /\ resolve.els[resolve.first[1]].id = "countertop-surface-4"
    /\ resolve.els[resolve.first[2]].id = "countertop-surface-5"
    /\ resolve.first[1] > resolve.first[2]

\* C27: a call of updateSurface for a category that has no selected
\* material (empty or unknown id) or resolves to no region changes no fill
\* and no pattern definition and starts no image fetch, and the pass goes on
\* with the next category.
C27_NothingToPaint ==
    [][\A p \in Passes :
          LET c == LayerOrder[passes[p].step]
              noMaterial == ~ \E t \in Catalog : t.id = passes[p].sel[c]
              noRegions == Selectors(passes[p].scene, elems, c) = <<>>
          IN  (UpdateSurface(p) /\ (noMaterial \/ noRegions))
              => /\ elems' = elems
                 /\ defs' = defs
                 /\ passes'[p].status = "running"
                 /\ passes'[p].step = passes[p].step + 1
                 /\ running' = p]_vars

\* a pass started with a stored selection has left the countertop regions
\* (unknown material) and the backsplash regions (no material) as the
\* artwork has them and has gone on to paint the cabinet
C27_Witness ==
    \E p \in Passes :
        /\ passes[p].status = "running"
        /\ passes[p].sel = StoredSelections
        /\ passes[p].log = OrderedLog
        /\ docScene = "kitchen-preview"
        /\ last.kind = "color" /\ last.cat = "cabinet" /\ last.pass = p
        /\ \A i \in 1..Len(elems) :
              elems[i].id \in SeqRange(CountertopIds) \cup SeqRange(BacksplashIds)
              => elems[i] = ArtworkIdBased[i]
        /\ \E i \in 1..Len(elems) : elems[i].id = "countertop-surface-4"

\* flat floor colours a catalog may offer besides the one applied
OtherFloorColors ==
    { <<"#","d","4","a","5","7","4">>, <<"#","f","5","f","5","f","0">>,
      <<"#","6","b","7","2","8","0">> }

\* the document holds one floor tile pattern, with the given face and the
\* grout derived from it, and the listed elements reference it
OneFloorPattern(els, ds, regions, color) ==
    /\ PatternCount(ds, FloorPatternId) = 1
    /\ \A k \in 1..Len(ds) :
          ds[k].id = FloorPatternId =>
              /\ ds[k].face = color
              /\ ds[k].grout = adjustColorBrightness(color, -15)
    /\ \A i \in regions :
          els[i].fill = Url(FloorPatternId) /\ els[i].style = Url(FloorPatternId)

RemoteFetches(k) ==
    {i \in 1..Len(fetches) : fetches[i].kind = k /\ fetches[i].outcome # "cached"}

\* C29: each dataset is loaded once: however the calls of a loader
\* interleave, at most one of them issues a remote fetch, and all calls that
\* have returned have returned the same list.
C29_LoadedOnce ==
    \A k \in Kinds :
        /\ Cardinality(RemoteFetches(k)) <= 1
        /\ \A i, j \in 1..Len(fetches) :
              (/\ fetches[i].kind = k /\ fetches[j].kind = k
               /\ fetches[i].status = "returned" /\ fetches[j].status = "returned")
              => fetches[i].result = fetches[j].result

\* C30: handleLoadDesign(d) leaves the selection, the scene and the theme
\* marker of d, and the content becoming ready afterwards does not overwrite
\* them; the default theme classic-wood is applied when the content becomes
\* ready and no design has been loaded.
C30_LoadedDesignKept ==
    [][/\ \A d \in storage :
             HandleLoadDesign(d)
             => /\ selections' = d.selections
                /\ sceneId' = d.sceneId
                /\ selectedThemeId' = d.themeId
       /\ (ContentLoaded /\ hasLoadedDesign)
          => /\ selections' = selections
             /\ sceneId' = sceneId
             /\ selectedThemeId' = selectedThemeId
       /\ (ContentLoaded /\ ~hasLoadedDesign)
          => /\ selectedThemeId' = "classic-wood"
             /\ selections' = ThemeSelections(getThemeById("classic-wood"))]_vars

\* a saved design that is not the default theme is open in the editor and
\* the content is ready
C30_Witness ==
    /\ view = "editor"
    /\ hasLoadedDesign
    /\ contentReady
    /\ selections = EarlierDesign.selections
    /\ selections # ThemeSelections(getThemeById("classic-wood"))
    /\ selectedThemeId = EarlierDesign.themeId
    /\ sceneId = EarlierDesign.sceneId

====
